---- MODULE Spec2Model ----
(***************************************************************************)
(* Shippability subsystem of postgres_fdw (contrib/postgres_fdw/shippable.c)*)
(*                                                                         *)
(* One backend's view: the process-local hash table ShippableCacheHash,    *)
(* the syscache callbacks it registers, the catalog's pg_depend rows, and   *)
(* the extension-list parser extractExtensionList.                          *)
(*                                                                         *)
(* Spec         is_shippable / InvalidateShippableCacheCallback            *)
(* SpecParse    extractExtensionList / CREATE EXTENSION                    *)
(* SpecResolve  lookup_shippable alone, over every order of the scan       *)
(* SpecSteps    is_shippable statement by statement; FairSpecSteps adds    *)
(*              that the backend keeps executing the call it is in         *)
(* SpecBackends several backends, each with its own process memory, and    *)
(*              ALTER SERVER changing the declared extension list          *)
(***************************************************************************)
EXTENDS Integers, Sequences, FiniteSets, TLC

VARIABLES
    pg_depend,            \* rows of the dependency catalog
    cacheCreated,         \* ShippableCacheHash != NULL
    ShippableCacheHash,   \* set of ShippableCacheEntry
    syscacheCallbacks,    \* cache ids InvalidateShippableCacheCallback is registered for
    last,                 \* observation of the most recent cache operation
    invalDelivered,       \* an invalidation event has been delivered to this backend
    lookupsSince,         \* extension sets used by the lookups since the last flush
    installed,            \* names of the extensions in pg_extension
    extensionOids,        \* the caller's List *extensionOids (planning context)
    parse,                \* observation of the most recent parser operation
    self,                 \* the backend on the CPU: the cache variables are its memory
    others,               \* process memory of the backends that are not running
    declared,             \* the foreign server's extensions option in the catalog
    seen,                 \* each backend's syscache copy of that option
    pending,              \* backends with an invalidation message not yet accepted
    frame,                \* the is_shippable call in progress: position and locals
    predates              \* objects whose entry was computed from a list passed
                          \* before the most recent delivered invalidation

vars == <<pg_depend, cacheCreated, ShippableCacheHash, syscacheCallbacks, last,
          invalDelivered, lookupsSince,
          installed, extensionOids, parse,
          self, others, declared, seen, pending, frame, predates>>

cacheVars == <<pg_depend, cacheCreated, ShippableCacheHash, syscacheCallbacks,
               last, invalDelivered, lookupsSince>>

parseVars == <<installed, extensionOids, parse>>

backendVars == <<self, others, declared, seen, pending>>

stepVars == <<frame, predates>>

(***************************************************************************)
(* Bounds                                                                  *)
(***************************************************************************)
NumObjects == 2     \* object ids 1..NumObjects
MaxEdges   == 1     \* rows of pg_depend
MaxTokens  == 3     \* comma separated tokens of an extension string
NumBackends == 2    \* backends 1..NumBackends

(***************************************************************************)
(* Program constants                                                       *)
(***************************************************************************)
InvalidOid == 0
NIL == <<>>
DEPENDENCY_EXTENSION == "e"
DEPENDENCY_NORMAL == "n"
FOREIGNDATAWRAPPEROID == "FOREIGNDATAWRAPPEROID"
FOREIGNSERVEROID == "FOREIGNSERVEROID"

ExtNames == {"seg", "hstore"}
ExtensionOid == [seg |-> 101, hstore |-> 102]
ExtOids == {ExtensionOid[n] : n \in ExtNames}
Objects == 1..NumObjects
Backends == 1..NumBackends
DepTypes == {DEPENDENCY_EXTENSION, DEPENDENCY_NORMAL}

Range(s) == {s[i] : i \in 1..Len(s)}

\* Lists of extension oids a planning context can hold: no oid twice.
ExtensionLists ==
    {l \in UNION {[1..n -> ExtOids] : n \in 0..Cardinality(ExtOids)} :
        \A i, j \in 1..Len(l) : i # j => l[i] # l[j]}

\* Form_pg_depend, restricted to the columns shippable.c reads.
DependRows == [objid : Objects, deptype : DepTypes, refobjid : ExtOids]

ShippableCacheKey(objnumber) == [objid |-> objnumber]

ShippableCacheEntry(key, shippable) == [key |-> key, shippable |-> shippable]

(***************************************************************************)
(* dynahash operations used by the cache                                   *)
(***************************************************************************)
\* hash_search(.., HASH_FIND, ..): the entries with that key (empty = NULL).
hash_find(hash, key) == {e \in hash : e.key = key}

\* hash_search(.., HASH_REMOVE, ..)
hash_remove(hash, key) == {e \in hash : e.key # key}

\* An insertion that leaves the new entry alone in the table.
hash_enter_alone(hash, key, shippable) == {ShippableCacheEntry(key, shippable)}

\* hash_search(.., HASH_ENTER, ..) followed by entry->shippable = shippable
hash_enter(hash, key, shippable) ==
    {e \in hash : e.key # key} \cup {ShippableCacheEntry(key, shippable)}

(***************************************************************************)
(* InvalidateShippableCacheCallback: hash_seq_search over the table,       *)
(* removing the entry it is handed, until the scan is exhausted.           *)
(***************************************************************************)
\* The loop body run once: an if where the while belongs.
InvalidateLoopFirstOnly(hash) ==
    IF hash = {} THEN {}
    ELSE LET entry == CHOOSE e \in hash : TRUE
         IN  hash_remove(hash, entry.key)

RECURSIVE InvalidateLoop(_)
InvalidateLoop(hash) ==
    IF hash = {} THEN {}
    ELSE LET entry == CHOOSE e \in hash : TRUE
         IN  InvalidateLoop(hash_remove(hash, entry.key))

\* A flush that drops the positive answers only.
InvalidateKeepUnshippable(hash) == {e \in hash : ~e.shippable}

InvalidateShippableCacheCallbackBody(hash) == InvalidateLoop(hash)

(***************************************************************************)
(* list_member_oid                                                         *)
(***************************************************************************)
RECURSIVE list_member_oid(_, _)
list_member_oid(list, datum) ==
    IF list = NIL THEN FALSE
    ELSE IF Head(list) = datum THEN TRUE
    ELSE list_member_oid(Tail(list), datum)

(***************************************************************************)
(* lookup_shippable                                                        *)
(***************************************************************************)
\* The rows systable_getnext hands out for the scan key objid = objnumber,
\* in the order of the index scan.
RECURSIVE SetToSeq(_)
SetToSeq(S) ==
    IF S = {} THEN <<>>
    ELSE LET x == CHOOSE y \in S : TRUE
         IN  <<x>> \o SetToSeq(S \ {x})

systable_scan(objnumber) == SetToSeq({d \in pg_depend : d.objid = objnumber})

RECURSIVE ScanLoopAnyDeptype(_, _)
ScanLoopAnyDeptype(tuples, extension_list) ==
    IF tuples = <<>> THEN FALSE
    ELSE LET foundDep == Head(tuples)
         IN  IF list_member_oid(extension_list, foundDep.refobjid)
             THEN TRUE
             ELSE ScanLoopAnyDeptype(Tail(tuples), extension_list)

RECURSIVE ScanLoop(_, _)
ScanLoop(tuples, extension_list) ==
    IF tuples = <<>> THEN FALSE
    ELSE LET foundDep == Head(tuples)
         IN  IF /\ foundDep.deptype = DEPENDENCY_EXTENSION
                /\ list_member_oid(extension_list, foundDep.refobjid)
             THEN TRUE
             ELSE ScanLoop(Tail(tuples), extension_list)

\* The resolver with the deptype test left out.
lookup_shippable_any_deptype(objnumber, extension_list) ==
    IF extension_list = NIL
    THEN [is_shippable |-> FALSE, beginscan |-> 0]
    ELSE [is_shippable |-> ScanLoopAnyDeptype(systable_scan(objnumber), extension_list),
          beginscan |-> 1]

\* is_shippable: the function's result; beginscan: systable_beginscan calls.
lookup_shippable(objnumber, extension_list) ==
    IF extension_list = NIL
    THEN [is_shippable |-> FALSE, beginscan |-> 0]
    ELSE [is_shippable |-> ScanLoop(systable_scan(objnumber), extension_list),
          beginscan |-> 1]

(***************************************************************************)
(* heap_open(DependRelationId, RowExclusiveLock): taking the lock accepts  *)
(* pending invalidation messages, which runs the registered callback.      *)
(***************************************************************************)
heap_open(hash, inval) ==
    IF inval THEN InvalidateShippableCacheCallbackBody(hash) ELSE hash

(***************************************************************************)
(* InitializeShippableCache                                                *)
(***************************************************************************)
\* The initialization with the foreign-server registration forgotten.
InitializeShippableCacheOneCallback ==
    [created   |-> TRUE,
     hash      |-> {},
     callbacks |-> syscacheCallbacks \o <<FOREIGNDATAWRAPPEROID>>]

InitializeShippableCache ==
    [created   |-> TRUE,
     hash      |-> {},
     callbacks |-> syscacheCallbacks \o <<FOREIGNDATAWRAPPEROID, FOREIGNSERVEROID>>]

(***************************************************************************)
(* is_shippable.  inval: an invalidation message is pending when the miss  *)
(* path opens pg_depend.  The result record holds the state the call       *)
(* leaves behind and what it did.                                          *)
(***************************************************************************)
IsShippableCached(objnumber, extension_list, inval) ==
    LET cache == IF ~cacheCreated
                 THEN InitializeShippableCache
                 ELSE [created |-> cacheCreated, hash |-> ShippableCacheHash,
                       callbacks |-> syscacheCallbacks]
        key   == ShippableCacheKey(objnumber)
        entry == hash_find(cache.hash, key)
    IN  IF entry = {}
        THEN LET opened    == heap_open(cache.hash, inval)
                 shippable == lookup_shippable(objnumber, extension_list)
                 stored    == hash_enter(opened, key, shippable.is_shippable)
                 newentry  == CHOOSE e \in hash_find(stored, key) : TRUE
             IN  [created |-> cache.created, hash |-> stored,
                  callbacks |-> cache.callbacks,
                  result |-> newentry.shippable,
                  scans |-> shippable.beginscan, probes |-> 1,
                  flushed |-> inval]
        ELSE LET found == CHOOSE e \in entry : TRUE
             IN  [created |-> cache.created, hash |-> cache.hash,
                  callbacks |-> cache.callbacks,
                  result |-> found.shippable,
                  scans |-> 0, probes |-> 1, flushed |-> FALSE]

IsShippableNoNilCheck(objnumber, extension_list, inval) ==
    IsShippableCached(objnumber, extension_list, inval)

IsShippableAlwaysLookup(objnumber, extension_list, inval) ==
    IF extension_list = NIL
    THEN [created |-> cacheCreated, hash |-> ShippableCacheHash,
          callbacks |-> syscacheCallbacks, result |-> FALSE,
          scans |-> 0, probes |-> 0, flushed |-> FALSE]
    ELSE LET cache == IF ~cacheCreated
                      THEN InitializeShippableCache
                      ELSE [created |-> cacheCreated, hash |-> ShippableCacheHash,
                            callbacks |-> syscacheCallbacks]
             key == ShippableCacheKey(objnumber)
             opened == heap_open(cache.hash, inval)
             shippable == lookup_shippable(objnumber, extension_list)
         IN  [created |-> cache.created,
              hash |-> hash_enter(opened, key, shippable.is_shippable),
              callbacks |-> cache.callbacks,
              result |-> shippable.is_shippable,
              scans |-> shippable.beginscan, probes |-> 1, flushed |-> inval]

\* A hit that answers for the caller's list instead of from the entry.
IsShippableHitResolves(objnumber, extension_list, inval) ==
    IF extension_list = NIL
    THEN [created |-> cacheCreated, hash |-> ShippableCacheHash,
          callbacks |-> syscacheCallbacks, result |-> FALSE,
          scans |-> 0, probes |-> 0, flushed |-> FALSE]
    ELSE LET r == IsShippableCached(objnumber, extension_list, inval)
         IN  IF r.scans = 0
             THEN [r EXCEPT !.result =
                               lookup_shippable(objnumber, extension_list).is_shippable]
             ELSE r

\* A call that replaces the entry it finds by a fresh answer.
IsShippableRefreshes(objnumber, extension_list, inval) ==
    IF extension_list = NIL
    THEN [created |-> cacheCreated, hash |-> ShippableCacheHash,
          callbacks |-> syscacheCallbacks, result |-> FALSE,
          scans |-> 0, probes |-> 0, flushed |-> FALSE]
    ELSE LET r == IsShippableCached(objnumber, extension_list, inval)
             fresh == lookup_shippable(objnumber, extension_list).is_shippable
         IN  [r EXCEPT !.hash = hash_enter(r.hash, ShippableCacheKey(objnumber), fresh)]

is_shippable(objnumber, extension_list, inval) ==
    IF extension_list = NIL
    THEN [created |-> cacheCreated, hash |-> ShippableCacheHash,
          callbacks |-> syscacheCallbacks, result |-> FALSE,
          scans |-> 0, probes |-> 0, flushed |-> FALSE]
    ELSE IsShippableCached(objnumber, extension_list, inval)

(***************************************************************************)
(* Actions of the cache                                                    *)
(***************************************************************************)
\* last.removed: the object ids whose entries were flushed by the callback
\* run in this operation or, for a call, by the flush right before it.
NoOp == [op |-> "none", objnumber |-> InvalidOid,
         extension_list |-> NIL, result |-> FALSE, scans |-> 0, probes |-> 0,
         flushed |-> FALSE, removed |-> {}]

CachedObjects == {e.key.objid : e \in ShippableCacheHash}

\* The extension sets used since the last flush, with one more; kept as the
\* family of all sets once two different sets have been used.
UsedSince(used, extension_list) ==
    LET all == used \cup {Range(extension_list)}
    IN  IF Cardinality(all) > 1 THEN SUBSET ExtOids ELSE all

\* What a call is_shippable(objnumber, extension_list) does to the memory
\* of the backend that makes it.
IsShippableCall(objnumber, extension_list, inval) ==
    LET r == is_shippable(objnumber, extension_list, inval)
    IN  /\ inval => (extension_list # NIL
                     /\ hash_find(ShippableCacheHash, ShippableCacheKey(objnumber)) = {})
        /\ cacheCreated' = r.created
        /\ ShippableCacheHash' = r.hash
        /\ syscacheCallbacks' = r.callbacks
        /\ last' = [op |-> "is_shippable", objnumber |-> objnumber,
                    extension_list |-> extension_list, result |-> r.result,
                    scans |-> r.scans, probes |-> r.probes, flushed |-> r.flushed,
                    removed |-> IF r.flushed THEN CachedObjects
                                ELSE IF last.op = "invalidate" THEN last.removed
                                ELSE {}]
        /\ UNCHANGED <<pg_depend, parseVars>>

\* A planner call is_shippable(objnumber, extension_list).
IsShippable(objnumber, extension_list, inval) ==
    /\ IsShippableCall(objnumber, extension_list, inval)
    /\ invalDelivered' = (invalDelivered \/ last'.flushed)
    /\ lookupsSince' = IF last'.flushed THEN {Range(extension_list)}
                       ELSE UsedSince(lookupsSince, extension_list)
    /\ UNCHANGED <<backendVars, stepVars>>

\* What a run of the callback does to the memory of the backend it runs in.
InvalidateCall ==
    /\ ShippableCacheHash' = InvalidateShippableCacheCallbackBody(ShippableCacheHash)
    /\ last' = [NoOp EXCEPT !.op = "invalidate", !.removed = CachedObjects]
    /\ UNCHANGED <<pg_depend, cacheCreated, syscacheCallbacks, parseVars>>

\* The syscache delivers an invalidation of cacheid between two calls.
InvalidateShippableCacheCallback(cacheid) ==
    /\ cacheid \in Range(syscacheCallbacks)
    /\ InvalidateCall
    /\ invalDelivered' = TRUE
    /\ lookupsSince' = {}
    /\ UNCHANGED <<backendVars, stepVars>>

(***************************************************************************)
(* Several backends.  ShippableCacheHash is a static of the backend        *)
(* process: the cache variables hold the memory of the backend that is     *)
(* running, others the memory of the rest.                                 *)
(***************************************************************************)
FreshImage == [created |-> FALSE, hash |-> {}, callbacks |-> <<>>]

\* One table in shared memory, seen by every backend.
BackendCacheShared(b) ==
    [created |-> cacheCreated, hash |-> ShippableCacheHash,
     callbacks |-> syscacheCallbacks]

\* The statics of backend b.
BackendCache(b) ==
    IF b = self
    THEN [created |-> cacheCreated, hash |-> ShippableCacheHash,
          callbacks |-> syscacheCallbacks]
    ELSE others[b]

\* The objects the backends' queries reference: those with catalog rows.
QueriedObjects == {d.objid : d \in pg_depend}

\* Option lists ALTER SERVER sets: none, or one extension.
DeclaredLists == {l \in ExtensionLists : Len(l) <= 1}

\* The scheduler takes the running backend off the CPU and resumes b.
Schedule(b) ==
    /\ b # self
    /\ self' = b
    /\ others' = [x \in Backends \ {b} |-> BackendCache(x)]
    /\ cacheCreated' = others[b].created
    /\ ShippableCacheHash' = others[b].hash
    /\ syscacheCallbacks' = others[b].callbacks
    /\ last' = [NoOp EXCEPT !.op = "schedule"]
    /\ UNCHANGED <<pg_depend, invalDelivered, lookupsSince, parseVars,
                   declared, seen, pending, stepVars>>

\* ALTER SERVER ... OPTIONS (extensions ...): the catalog row changes and an
\* invalidation message is queued for every backend.
AlterServer(extension_list) ==
    /\ extension_list # declared
    /\ declared' = extension_list
    /\ pending' = Backends
    /\ last' = [NoOp EXCEPT !.op = "alter_server"]
    /\ UNCHANGED <<pg_depend, cacheCreated, ShippableCacheHash, syscacheCallbacks,
                   invalDelivered, lookupsSince, parseVars, self, others, seen,
                   stepVars>>

\* The running backend accepts its pending message between two calls: its
\* syscache copy of the option is refreshed and the callback, if registered,
\* flushes the table.
AcceptInvalidation ==
    /\ self \in pending
    /\ pending' = pending \ {self}
    /\ seen' = [seen EXCEPT ![self] = declared]
    /\ IF FOREIGNSERVEROID \in Range(syscacheCallbacks)
       THEN InvalidateCall
       ELSE /\ last' = [NoOp EXCEPT !.op = "accept"]
            /\ UNCHANGED <<pg_depend, cacheCreated, ShippableCacheHash,
                           syscacheCallbacks, parseVars>>
    /\ UNCHANGED <<invalDelivered, lookupsSince, self, others, declared, stepVars>>

\* The running backend plans a query with the extension list it parsed from
\* its copy of the option; inval: its pending message is accepted when
\* the miss path opens pg_depend.
BackendIsShippable(objnumber, inval) ==
    /\ inval => self \in pending
    /\ IsShippableCall(objnumber, seen[self], inval)
    /\ pending' = IF inval THEN pending \ {self} ELSE pending
    /\ seen' = IF inval THEN [seen EXCEPT ![self] = declared] ELSE seen
    /\ UNCHANGED <<invalDelivered, lookupsSince, self, others, declared, stepVars>>

(***************************************************************************)
(* extractExtensionList                                                    *)
(***************************************************************************)
\* Tokens an extension string is made of; "" is what lies between two
\* adjacent commas.  An extension string is its sequence of tokens.
RawTokens == {"seg", "SEG", "hstore", ""}

ExtensionStrings == UNION {[1..n -> RawTokens] : n \in 1..MaxTokens}

\* Unquoted identifiers are folded to lower case.
downcase_identifier(tok) == IF tok = "SEG" THEN "seg" ELSE tok

\* SplitIdentifierString(rawstring, ',', &namelist): fails on an empty
\* identifier, otherwise hands back the folded identifiers in order.
SplitIdentifierString(rawstring) ==
    IF \E i \in 1..Len(rawstring) : rawstring[i] = ""
    THEN [ok |-> FALSE, namelist |-> NIL]
    ELSE [ok |-> TRUE,
          namelist |-> [i \in 1..Len(rawstring) |-> downcase_identifier(rawstring[i])]]

\* get_extension_oid(extname, missing_ok = true)
get_extension_oid(extname) ==
    IF extname \in installed THEN ExtensionOid[extname] ELSE InvalidOid

lappend_oid(list, datum) == Append(list, datum)

\* The foreach loop with the membership test left out.
RECURSIVE ExtractLoopNoDedup(_, _, _)
ExtractLoopNoDedup(extlist, isNull, oids) ==
    IF extlist = NIL
    THEN [status |-> "ok", name |-> "", oids |-> oids]
    ELSE LET extension_name == Head(extlist)
             extension_oid  == get_extension_oid(extension_name)
         IN  IF extension_oid = InvalidOid
             THEN [status |-> "unknown", name |-> extension_name, oids |-> oids]
             ELSE IF ~isNull
             THEN ExtractLoopNoDedup(Tail(extlist), isNull,
                                     lappend_oid(oids, extension_oid))
             ELSE ExtractLoopNoDedup(Tail(extlist), isNull, oids)

\* The foreach loop with the InvalidOid test falling through to the next name.
RECURSIVE ExtractLoopSkipUnknown(_, _, _)
ExtractLoopSkipUnknown(extlist, isNull, oids) ==
    IF extlist = NIL
    THEN [status |-> "ok", name |-> "", oids |-> oids]
    ELSE LET extension_name == Head(extlist)
             extension_oid  == get_extension_oid(extension_name)
         IN  IF extension_oid = InvalidOid
             THEN ExtractLoopSkipUnknown(Tail(extlist), isNull, oids)
             ELSE IF ~isNull
             THEN ExtractLoopSkipUnknown(Tail(extlist), isNull,
                      IF ~list_member_oid(oids, extension_oid)
                      THEN lappend_oid(oids, extension_oid) ELSE oids)
             ELSE ExtractLoopSkipUnknown(Tail(extlist), isNull, oids)

\* foreach(l, extlist): oids is *extensionOids so far; ereport(ERROR) leaves
\* the loop with what has been appended.
RECURSIVE ExtractLoop(_, _, _)
ExtractLoop(extlist, isNull, oids) ==
    IF extlist = NIL
    THEN [status |-> "ok", name |-> "", oids |-> oids]
    ELSE LET extension_name == Head(extlist)
             extension_oid  == get_extension_oid(extension_name)
         IN  IF extension_oid = InvalidOid
             THEN [status |-> "unknown", name |-> extension_name, oids |-> oids]
             ELSE IF ~isNull
             THEN ExtractLoop(Tail(extlist), isNull,
                      IF ~list_member_oid(oids, extension_oid)
                      THEN lappend_oid(oids, extension_oid) ELSE oids)
             ELSE ExtractLoop(Tail(extlist), isNull, oids)

extractExtensionListNoDedup(extensionString, isNull, oids) ==
    LET split == SplitIdentifierString(extensionString)
    IN  IF ~split.ok
        THEN [status |-> "syntax", name |-> "", oids |-> oids]
        ELSE ExtractLoopNoDedup(split.namelist, isNull, oids)

extractExtensionListSkipUnknown(extensionString, isNull, oids) ==
    LET split == SplitIdentifierString(extensionString)
    IN  IF ~split.ok
        THEN [status |-> "syntax", name |-> "", oids |-> oids]
        ELSE ExtractLoopSkipUnknown(split.namelist, isNull, oids)

\* Validation mode returning success as soon as the string splits.
extractExtensionListNullSkipsLookup(extensionString, isNull, oids) ==
    LET split == SplitIdentifierString(extensionString)
    IN  IF ~split.ok
        THEN [status |-> "syntax", name |-> "", oids |-> oids]
        ELSE IF isNull
        THEN [status |-> "ok", name |-> "", oids |-> oids]
        ELSE ExtractLoop(split.namelist, isNull, oids)

\* isNull: extensionOids == NULL; oids: *extensionOids on entry.
extractExtensionList(extensionString, isNull, oids) ==
    LET split == SplitIdentifierString(extensionString)
    IN  IF ~split.ok
        THEN [status |-> "syntax", name |-> "", oids |-> oids]
        ELSE ExtractLoop(split.namelist, isNull, oids)

(***************************************************************************)
(* Actions of the parser                                                   *)
(***************************************************************************)
ParseIdle == [op |-> "none", extensionString |-> <<>>, isNull |-> FALSE,
              before |-> NIL, status |-> "none", name |-> ""]

\* A call extractExtensionList(extensionString, target): target is NULL
\* (option validation), a fresh NIL list, or the list the planning context
\* already holds (wrapper options, then server options).
ExtractExtensionList(extensionString, target) ==
    LET isNull == (target = "NULL")
        before == IF target = "context" THEN extensionOids ELSE NIL
        r      == extractExtensionList(extensionString, isNull, before)
    IN  /\ extensionOids' = IF isNull THEN extensionOids ELSE r.oids
        /\ parse' = [op |-> "extract", extensionString |-> extensionString,
                     isNull |-> isNull, before |-> before,
                     status |-> r.status, name |-> r.name]
        /\ UNCHANGED <<installed, cacheVars, backendVars, stepVars>>

\* CREATE EXTENSION name
CreateExtension(name) ==
    /\ name \notin installed
    /\ installed' = installed \cup {name}
    /\ parse' = [ParseIdle EXCEPT !.op = "create_extension", !.name = name]
    /\ UNCHANGED <<extensionOids, cacheVars, backendVars, stepVars>>

(***************************************************************************)
(* lookup_shippable on its own.  The index scan hands out the rows of the  *)
(* object in an order the caller does not control.                         *)
(***************************************************************************)
ScanOrders(objnumber) ==
    LET rows == {d \in pg_depend : d.objid = objnumber}
    IN  {t \in [1..Cardinality(rows) -> rows] :
            \A i, j \in 1..Cardinality(rows) : t[i] = t[j] => i = j}

LookupShippable(objnumber, extension_list, tuples) ==
    /\ tuples \in ScanOrders(objnumber)
    /\ last' = [NoOp EXCEPT !.op = "lookup_shippable",
                            !.objnumber = objnumber,
                            !.extension_list = extension_list,
                            !.result = IF extension_list = NIL THEN FALSE
                                       ELSE ScanLoop(tuples, extension_list),
                            !.scans = IF extension_list = NIL THEN 0 ELSE 1]
    /\ UNCHANGED <<pg_depend, cacheCreated, ShippableCacheHash, syscacheCallbacks,
                   invalDelivered, lookupsSince, parseVars, backendVars, stepVars>>

(***************************************************************************)
(* is_shippable and lookup_shippable statement by statement.  frame.pc     *)
(* names the statement the backend executes next; depRel and scan tell     *)
(* whether the lock on pg_depend is held and the scan is open; flushed     *)
(* tells whether an invalidation was delivered since the call was made.    *)
(***************************************************************************)
IdleFrame ==
    [pc |-> "idle", objnumber |-> InvalidOid, extension_list |-> NIL,
     tuples |-> <<>>, is_shippable |-> FALSE, depRel |-> FALSE, scan |-> FALSE,
     ret |-> {}, flushed |-> FALSE]

ProgramCounters ==
    {"idle", "is_shippable", "init", "hash_find", "lookup_shippable", "heap_open",
     "beginscan", "getnext", "endscan", "relation_close", "hash_enter", "return"}

\* A scan that hands out the same tuple again and again.
systable_getnext_stuck(tuples) == tuples

\* The tuples left to the scan after it handed out the first.
systable_getnext(tuples) == Tail(tuples)

stepFrame == <<pg_depend, last, invalDelivered, lookupsSince, parseVars, backendVars>>

\* The planner calls is_shippable(objnumber, extension_list).
Call(objnumber, extension_list) ==
    /\ frame.pc = "idle"
    /\ frame' = [IdleFrame EXCEPT !.pc = "is_shippable", !.objnumber = objnumber,
                                  !.extension_list = extension_list]
    /\ UNCHANGED <<cacheVars, parseVars, backendVars, predates>>

\* if (extension_list == NIL) return false;
StepCheckNil ==
    /\ frame.pc = "is_shippable"
    /\ frame' = IF frame.extension_list = NIL
                THEN [frame EXCEPT !.pc = "return", !.ret = {FALSE}]
                ELSE [frame EXCEPT !.pc = "init"]
    /\ UNCHANGED <<cacheVars, parseVars, backendVars, predates>>

\* if (!ShippableCacheHash) InitializeShippableCache();
StepInit ==
    /\ frame.pc = "init"
    /\ IF cacheCreated
       THEN UNCHANGED <<cacheCreated, ShippableCacheHash, syscacheCallbacks>>
       ELSE /\ cacheCreated' = InitializeShippableCache.created
            /\ ShippableCacheHash' = InitializeShippableCache.hash
            /\ syscacheCallbacks' = InitializeShippableCache.callbacks
    /\ frame' = [frame EXCEPT !.pc = "hash_find"]
    /\ UNCHANGED <<stepFrame, predates>>

\* entry = hash_search(..., HASH_FIND, NULL); a hit returns entry->shippable.
StepHashFind ==
    /\ frame.pc = "hash_find"
    /\ LET entry == hash_find(ShippableCacheHash, ShippableCacheKey(frame.objnumber))
       IN  frame' = IF entry # {}
                    THEN [frame EXCEPT !.pc = "return",
                                       !.ret = {e.shippable : e \in entry}]
                    ELSE [frame EXCEPT !.pc = "lookup_shippable"]
    /\ UNCHANGED <<cacheVars, parseVars, backendVars, predates>>

\* lookup_shippable: if (extension_list == NIL) return false;
StepLookupCheckNil ==
    /\ frame.pc = "lookup_shippable"
    /\ frame' = IF frame.extension_list = NIL
                THEN [frame EXCEPT !.pc = "hash_enter", !.is_shippable = FALSE]
                ELSE [frame EXCEPT !.pc = "heap_open", !.is_shippable = FALSE]
    /\ UNCHANGED <<cacheVars, parseVars, backendVars, predates>>

\* depRel = heap_open(DependRelationId, RowExclusiveLock);
StepHeapOpen(inval) ==
    /\ frame.pc = "heap_open"
    /\ ShippableCacheHash' = heap_open(ShippableCacheHash, inval)
    /\ frame' = [frame EXCEPT !.pc = "beginscan", !.depRel = TRUE,
                              !.flushed = inval]
    /\ predates' = IF inval THEN {} ELSE predates
    /\ UNCHANGED <<cacheCreated, syscacheCallbacks, stepFrame>>

\* scan = systable_beginscan(depRel, DependDependerIndexId, ...);
StepBeginScan ==
    /\ frame.pc = "beginscan"
    /\ frame' = [frame EXCEPT !.pc = "getnext", !.scan = TRUE,
                              !.tuples = systable_scan(frame.objnumber)]
    /\ UNCHANGED <<cacheVars, parseVars, backendVars, predates>>

\* A loop body that returns true from inside the loop on a match.
StepGetNextReturnsInLoop ==
    /\ frame.pc = "getnext"
    /\ frame' =
          IF frame.tuples = <<>>
          THEN [frame EXCEPT !.pc = "endscan"]
          ELSE LET foundDep == Head(frame.tuples)
               IN  IF /\ foundDep.deptype = DEPENDENCY_EXTENSION
                      /\ list_member_oid(frame.extension_list, foundDep.refobjid)
                   THEN [frame EXCEPT !.pc = "hash_enter", !.is_shippable = TRUE,
                                      !.tuples = systable_getnext(frame.tuples)]
                   ELSE [frame EXCEPT !.tuples = systable_getnext(frame.tuples)]
    /\ UNCHANGED <<cacheVars, parseVars, backendVars, predates>>

\* One evaluation of the while condition and, for a tuple, of the loop body.
StepGetNext ==
    /\ frame.pc = "getnext"
    /\ frame' =
          IF frame.tuples = <<>>
          THEN [frame EXCEPT !.pc = "endscan"]
          ELSE LET foundDep == Head(frame.tuples)
               IN  IF /\ foundDep.deptype = DEPENDENCY_EXTENSION
                      /\ list_member_oid(frame.extension_list, foundDep.refobjid)
                   THEN [frame EXCEPT !.pc = "endscan", !.is_shippable = TRUE,
                                      !.tuples = systable_getnext(frame.tuples)]
                   ELSE [frame EXCEPT !.tuples = systable_getnext(frame.tuples)]
    /\ UNCHANGED <<cacheVars, parseVars, backendVars, predates>>

\* systable_endscan(scan);
StepEndScan ==
    /\ frame.pc = "endscan"
    /\ frame' = [frame EXCEPT !.pc = "relation_close", !.scan = FALSE]
    /\ UNCHANGED <<cacheVars, parseVars, backendVars, predates>>

\* relation_close(depRel, RowExclusiveLock); return is_shippable;
StepRelationClose ==
    /\ frame.pc = "relation_close"
    /\ frame' = [frame EXCEPT !.pc = "hash_enter", !.depRel = FALSE]
    /\ UNCHANGED <<cacheVars, parseVars, backendVars, predates>>

\* entry = hash_search(..., HASH_ENTER, NULL); entry->shippable = shippable;
StepHashEnter ==
    /\ frame.pc = "hash_enter"
    /\ ShippableCacheHash' = hash_enter(ShippableCacheHash,
                                        ShippableCacheKey(frame.objnumber),
                                        frame.is_shippable)
    /\ frame' = [frame EXCEPT !.pc = "return", !.ret = {frame.is_shippable}]
    /\ predates' = IF frame.flushed THEN predates \cup {frame.objnumber}
                   ELSE predates \ {frame.objnumber}
    /\ UNCHANGED <<cacheCreated, syscacheCallbacks, stepFrame>>

\* return entry->shippable; control is back in the planner.
StepReturn ==
    /\ frame.pc = "return"
    /\ frame' = IdleFrame
    /\ UNCHANGED <<cacheVars, parseVars, backendVars, predates>>

\* An invalidation of cacheid is delivered while no call is in progress.
StepInvalidate(cacheid) ==
    /\ frame.pc = "idle"
    /\ cacheid \in Range(syscacheCallbacks)
    /\ ShippableCacheHash' = InvalidateShippableCacheCallbackBody(ShippableCacheHash)
    /\ predates' = {}
    /\ UNCHANGED <<cacheCreated, syscacheCallbacks, stepFrame, frame>>

\* The statements of the call in progress.
Step ==
    \/ StepCheckNil
    \/ StepInit
    \/ StepHashFind
    \/ StepLookupCheckNil
    \/ \E inval \in BOOLEAN : StepHeapOpen(inval)
    \/ StepBeginScan
    \/ StepGetNext
    \/ StepEndScan
    \/ StepRelationClose
    \/ StepHashEnter
    \/ StepReturn

InitBackends ==
    /\ self = 1
    /\ others = [b \in Backends \ {1} |-> FreshImage]
    /\ declared = NIL
    /\ seen = [b \in Backends |-> NIL]
    /\ pending = {}

Init ==
    /\ pg_depend \in {D \in SUBSET DependRows : Cardinality(D) <= MaxEdges}
    /\ cacheCreated = FALSE
    /\ ShippableCacheHash = {}
    /\ syscacheCallbacks = <<>>
    /\ last = NoOp
    /\ invalDelivered = FALSE
    /\ lookupsSince = {}
    /\ installed = {}
    /\ extensionOids = NIL
    /\ parse = ParseIdle
    /\ InitBackends
    /\ frame = IdleFrame
    /\ predates = {}

Next ==
    \/ \E o \in Objects, l \in ExtensionLists, inval \in BOOLEAN :
          IsShippable(o, l, inval)
    \/ \E cacheid \in {FOREIGNDATAWRAPPEROID, FOREIGNSERVEROID} :
          InvalidateShippableCacheCallback(cacheid)

Spec == Init /\ [][Next]_vars

InitParse ==
    /\ pg_depend = {}
    /\ cacheCreated = FALSE
    /\ ShippableCacheHash = {}
    /\ syscacheCallbacks = <<>>
    /\ last = NoOp
    /\ invalDelivered = FALSE
    /\ lookupsSince = {}
    /\ installed = {}
    /\ extensionOids = NIL
    /\ parse = ParseIdle
    /\ InitBackends
    /\ frame = IdleFrame
    /\ predates = {}

NextParse ==
    \/ \E str \in ExtensionStrings, target \in {"NULL", "NIL", "context"} :
          ExtractExtensionList(str, target)
    \/ \E name \in ExtNames : CreateExtension(name)

SpecParse == InitParse /\ [][NextParse]_vars

\* The regression test's catalog: the queried operator belongs to seg.
InitBackendsSpec ==
    /\ pg_depend = {[objid |-> 1, deptype |-> DEPENDENCY_EXTENSION,
                     refobjid |-> ExtensionOid["seg"]]}
    /\ cacheCreated = FALSE
    /\ ShippableCacheHash = {}
    /\ syscacheCallbacks = <<>>
    /\ last = NoOp
    /\ invalDelivered = FALSE
    /\ lookupsSince = {}
    /\ installed = {}
    /\ extensionOids = NIL
    /\ parse = ParseIdle
    /\ InitBackends
    /\ frame = IdleFrame
    /\ predates = {}

NextBackends ==
    \/ \E b \in Backends : Schedule(b)
    \/ \E l \in DeclaredLists : AlterServer(l)
    \/ AcceptInvalidation
    \/ \E o \in QueriedObjects, inval \in BOOLEAN : BackendIsShippable(o, inval)

SpecBackends == InitBackendsSpec /\ [][NextBackends]_vars

InitResolve ==
    /\ pg_depend \in {D \in SUBSET DependRows : Cardinality(D) <= MaxEdges + 1}
    /\ cacheCreated = FALSE
    /\ ShippableCacheHash = {}
    /\ syscacheCallbacks = <<>>
    /\ last = NoOp
    /\ invalDelivered = FALSE
    /\ lookupsSince = {}
    /\ installed = {}
    /\ extensionOids = NIL
    /\ parse = ParseIdle
    /\ InitBackends
    /\ frame = IdleFrame
    /\ predates = {}

NextResolve ==
    \E o \in Objects, l \in ExtensionLists :
        \E tuples \in ScanOrders(o) : LookupShippable(o, l, tuples)

SpecResolve == InitResolve /\ [][NextResolve]_vars

\* The object whose catalog rows vary; the other objects have none.
ScannedObject == 1

InitSteps ==
    /\ pg_depend \in {D \in SUBSET {d \in DependRows : d.objid = ScannedObject} :
                          Cardinality(D) <= MaxEdges + 1}
    /\ cacheCreated = FALSE
    /\ ShippableCacheHash = {}
    /\ syscacheCallbacks = <<>>
    /\ last = NoOp
    /\ invalDelivered = FALSE
    /\ lookupsSince = {}
    /\ installed = {}
    /\ extensionOids = NIL
    /\ parse = ParseIdle
    /\ InitBackends
    /\ frame = IdleFrame
    /\ predates = {}

NextSteps ==
    \/ \E o \in Objects, l \in ExtensionLists : Call(o, l)
    \/ Step
    \/ \E cacheid \in {FOREIGNDATAWRAPPEROID, FOREIGNSERVEROID} : StepInvalidate(cacheid)

SpecSteps == InitSteps /\ [][NextSteps]_vars

\* A backend in a call keeps executing it: the code is sequential and takes
\* no lock of its own; the catalog lock is granted after a brief wait.
FairSpecSteps == SpecSteps /\ WF_vars(Step)

(***************************************************************************)
(* Properties of the cache                                                 *)
(***************************************************************************)
\* The resolver's contract (spec 4.2), stated on sets: o is shippable under
\* the extension set E iff pg_depend holds an extension-membership row from
\* o to a member of E.
ResolveShippable(o, E) ==
    \E d \in pg_depend : /\ d.objid = o
                         /\ d.deptype = DEPENDENCY_EXTENSION
                         /\ d.refobjid \in E

\* C1: once an invalidation has been delivered to the backend, every later
\* is_shippable(o, E) call returns the resolver's answer for the extension
\* set E it is given.
C1_FreshAfterInvalidation ==
    (invalDelivered /\ last.op = "is_shippable")
        => last.result = ResolveShippable(last.objnumber, Range(last.extension_list))

\* C2: an object with an extension-membership row to a member of E is
\* reported shippable by is_shippable(o, E), in every cache state.
C2_MemberIsShippable ==
    (/\ last.op = "is_shippable"
     /\ \E d \in pg_depend : /\ d.objid = last.objnumber
                             /\ d.deptype = DEPENDENCY_EXTENSION
                             /\ d.refobjid \in Range(last.extension_list))
        => last.result = TRUE

\* C3: an object all of whose extension-membership rows reference extensions
\* outside E (or that has none) is reported not shippable by
\* is_shippable(p, E), in every cache state.
C3_NonMemberNotShippable ==
    (/\ last.op = "is_shippable"
     /\ \A d \in pg_depend : (d.objid = last.objnumber
                              /\ d.deptype = DEPENDENCY_EXTENSION)
                                 => d.refobjid \notin Range(last.extension_list))
        => last.result = FALSE

\* C4: a call with the empty extension list returns false, starts no scan
\* of pg_depend, does not probe the hash table, and leaves the table, its
\* existence and the registered callbacks as they were.
C4_EmptyListShortCircuit ==
    [][(last'.op = "is_shippable" /\ last'.extension_list = NIL)
          => /\ last'.result = FALSE
             /\ last'.scans = 0
             /\ last'.probes = 0
             /\ UNCHANGED <<cacheCreated, ShippableCacheHash, syscacheCallbacks>>]_vars

\* An empty-list call made while the object's cached answer is true.
C4_Witness ==
    /\ last.op = "is_shippable"
    /\ last.extension_list = NIL
    /\ last.result = FALSE
    /\ \E e \in ShippableCacheHash : e.key.objid = last.objnumber /\ e.shippable

\* C5 as written: while o has an entry (a first call scanned pg_depend for
\* it and no invalidation came since), every later is_shippable call for o
\* returns that entry's answer and starts no scan.
C5_MemoizedEveryCall ==
    [][\A e \in ShippableCacheHash :
          (last'.op = "is_shippable" /\ last'.objnumber = e.key.objid)
             => (last'.result = e.shippable /\ last'.scans = 0)]_vars

\* C5 amended: the call that scans for o stores the answer it returns, and
\* while o has that entry every later call for o with a non-empty extension
\* list returns the entry's answer and starts no scan.
C5_MemoizedNonEmpty ==
    [][/\ (last'.op = "is_shippable" /\ last'.scans = 1)
             => ShippableCacheEntry(ShippableCacheKey(last'.objnumber), last'.result)
                   \in ShippableCacheHash'
       /\ \A e \in ShippableCacheHash :
             (/\ last'.op = "is_shippable"
              /\ last'.objnumber = e.key.objid
              /\ last'.extension_list # NIL)
                => (last'.result = e.shippable /\ last'.scans = 0)]_vars

\* A second call for a cached shippable object, answered from the table.
C5_Witness ==
    /\ last.op = "is_shippable"
    /\ last.extension_list # NIL
    /\ last.probes = 1
    /\ last.scans = 0
    /\ last.result = TRUE

\* C6: the first is_shippable call with a non-empty list after a flush
\* starts exactly one scan of pg_depend and returns what that scan finds.
C6_OneScanAfterInvalidate ==
    [][(/\ last.op = "invalidate"
        /\ last'.op = "is_shippable"
        /\ last'.extension_list # NIL)
          => /\ last'.scans = 1
             /\ last'.result = ResolveShippable(last'.objnumber,
                                                Range(last'.extension_list))]_vars

\* The call right after a flush asks about an object the flush removed.
C6_Witness ==
    /\ last.op = "is_shippable"
    /\ ~last.flushed
    /\ last.objnumber \in last.removed
    /\ Cardinality(last.removed) >= 2
    /\ last.scans = 1

\* C7: when the invalidation callback has returned the table holds no
\* entry and is what InitializeShippableCache left: created and empty.
C7_FlushEmptiesCache ==
    last.op = "invalidate" => (cacheCreated /\ ShippableCacheHash = {})

\* A flush of a table that held a shippable and a non-shippable entry.
C7_Witness ==
    /\ last.op = "invalidate"
    /\ Cardinality(last.removed) >= 2
    /\ ShippableCacheHash = {}

\* C8: when every lookup since the last flush used the same non-empty
\* extension set E, every entry stores the resolver's answer for its object
\* and E, and the call just made returned the resolver's answer.
C8_EntriesMatchResolver ==
    \A l \in ExtensionLists :
        (l # NIL /\ lookupsSince = {Range(l)})
            => /\ \A e \in ShippableCacheHash :
                     e.shippable = ResolveShippable(e.key.objid, Range(l))
               /\ last.op = "is_shippable"
                     => last.result = ResolveShippable(last.objnumber, Range(l))

\* After a flush, two objects resolved under one extension set, one of them
\* shippable and one not, the second answered from the table.
C8_Witness ==
    /\ invalDelivered
    /\ last.op = "is_shippable"
    /\ last.scans = 0
    /\ \E l \in ExtensionLists : l # NIL /\ lookupsSince = {Range(l)}
    /\ \E e1, e2 \in ShippableCacheHash : e1.shippable /\ ~e2.shippable

\* C13: the table is either not created, with no callback registered and
\* no entry, or created, with the callback registered once for the
\* foreign-data-wrapper cache and once for the foreign-server cache.  It
\* becomes created only in an is_shippable call with a non-empty list,
\* every such call leaves it created, it never goes back, and the callback
\* runs only on a created table.
C13_TwoLifecycleStates ==
    /\ [](IF cacheCreated
          THEN syscacheCallbacks = <<FOREIGNDATAWRAPPEROID, FOREIGNSERVEROID>>
          ELSE syscacheCallbacks = <<>> /\ ShippableCacheHash = {})
    /\ [](last.op = "invalidate" => cacheCreated)
    /\ [][/\ cacheCreated => cacheCreated'
          /\ (~cacheCreated /\ cacheCreated')
                => (last'.op = "is_shippable" /\ last'.extension_list # NIL)
          /\ (last'.op = "is_shippable" /\ last'.extension_list # NIL)
                => cacheCreated'
          /\ last'.op = "invalidate"
                => (cacheCreated /\ UNCHANGED <<cacheCreated, syscacheCallbacks>>)]_vars

\* A flush of a populated table, which stays created with its two callbacks.
C13_Witness ==
    /\ last.op = "invalidate"
    /\ last.removed # {}
    /\ cacheCreated
    /\ Len(syscacheCallbacks) = 2

\* C14: a flush right after a flush changes nothing, and a call for an
\* object that already has an entry leaves the table as it was.
C14_MutationsIdempotent ==
    [][/\ (last.op = "invalidate" /\ last'.op = "invalidate")
             => UNCHANGED <<cacheCreated, ShippableCacheHash, syscacheCallbacks>>
       /\ (last'.op = "is_shippable" /\ last'.objnumber \in CachedObjects)
             => UNCHANGED <<cacheCreated, ShippableCacheHash, syscacheCallbacks>>]_vars

\* A repeated call for a cached, not shippable object, with two entries in
\* the table.
C14_Witness ==
    /\ last.op = "is_shippable"
    /\ last.probes = 1
    /\ last.scans = 0
    /\ last.result = FALSE
    /\ Cardinality(ShippableCacheHash) >= 2

\* C18: the table is keyed by object id alone.  It never holds two entries
\* for one object id, and a call for an object that has an entry returns
\* that entry's boolean and leaves the table as it is, whatever non-empty
\* list the caller passes, also when the list would resolve the other way.
C18_HitIgnoresExtensionList ==
    /\ [](\A e1, e2 \in ShippableCacheHash : e1.key.objid = e2.key.objid => e1 = e2)
    /\ [][\A o \in CachedObjects, l \in ExtensionLists \ {NIL} :
             (/\ last'.op = "is_shippable"
              /\ last'.objnumber = o
              /\ last'.extension_list = l)
                => /\ ShippableCacheEntry(ShippableCacheKey(o), last'.result)
                         \in ShippableCacheHash
                   /\ ShippableCacheHash' = ShippableCacheHash
                   /\ ~last'.flushed]_vars

\* A hit answered true from an entry stored under another list: the list of
\* this call resolves the object to false.
C18_Witness ==
    /\ last.op = "is_shippable"
    /\ last.extension_list # NIL
    /\ last.probes = 1 /\ last.scans = 0
    /\ last.result = TRUE
    /\ ~ResolveShippable(last.objnumber, Range(last.extension_list))

\* C19: an entry is never updated in place.  In every step each entry of
\* the table either stays as it is or its object loses its entry, and an
\* object loses its entry only in a step in which the invalidation callback
\* ran; no call changes the boolean stored for an object.
C19_NoUpdateInPlace ==
    [][\A e \in ShippableCacheHash :
          \/ e \in ShippableCacheHash'
          \/ /\ e.key.objid \notin {x.key.objid : x \in ShippableCacheHash'}
             /\ (last'.op = "invalidate" \/ last'.flushed)]_vars

\* An entry stored as false is still in the table after a call for its
\* object with a list that resolves the object to true.
C19_Witness ==
    /\ last.op = "is_shippable"
    /\ last.scans = 0 /\ last.probes = 1
    /\ ResolveShippable(last.objnumber, Range(last.extension_list))
    /\ ShippableCacheEntry(ShippableCacheKey(last.objnumber), FALSE) \in ShippableCacheHash

\* C20 as written: a call changes nothing but the entry of its object.  A
\* miss adds exactly that entry and leaves every other entry unchanged, a
\* hit (and a call with an empty list) leaves the table unchanged, and
\* pg_depend is not modified.
C20_OnlyOwnEntry ==
    [][last'.op = "is_shippable"
          => /\ pg_depend' = pg_depend
             /\ IF last'.scans = 1
                THEN /\ last'.objnumber \notin CachedObjects
                     /\ ShippableCacheHash' = ShippableCacheHash \cup
                           {ShippableCacheEntry(ShippableCacheKey(last'.objnumber),
                                                last'.result)}
                ELSE ShippableCacheHash' = ShippableCacheHash]_vars

\* C20 amended: as above when no invalidation is delivered during the call;
\* a miss during whose heap_open an invalidation is delivered leaves the
\* entry of its object as the only entry.
C20_OnlyOwnEntryUnlessFlushed ==
    [][last'.op = "is_shippable"
          => /\ pg_depend' = pg_depend
             /\ last'.flushed => last'.scans = 1
             /\ IF last'.scans = 1
                THEN /\ last'.objnumber \notin CachedObjects
                     /\ ShippableCacheHash' =
                           (IF last'.flushed THEN {} ELSE ShippableCacheHash) \cup
                           {ShippableCacheEntry(ShippableCacheKey(last'.objnumber),
                                                last'.result)}
                ELSE ShippableCacheHash' = ShippableCacheHash]_vars

\* A miss, without an invalidation, added its entry next to the entry of
\* another object.
C20_Witness ==
    /\ last.op = "is_shippable"
    /\ last.scans = 1
    /\ ~last.flushed
    /\ Cardinality(ShippableCacheHash) >= 2

(***************************************************************************)
(* Properties of the parser                                                *)
(***************************************************************************)
\* The elements of s, each kept at its first occurrence only.
FirstOccurrences(s) ==
    LET keep == {i \in 1..Len(s) : \A j \in 1..(i - 1) : s[j] # s[i]}
        n    == Cardinality(keep)
        f    == CHOOSE g \in [1..n -> keep] :
                    \A a, b \in 1..n : a < b => g[a] < g[b]
    IN  [k \in 1..n |-> s[f[k]]]

\* The identifiers named by the extension string of the last call.
ParsedNames == SplitIdentifierString(parse.extensionString).namelist

ParsedOids == [i \in 1..Len(ParsedNames) |-> ExtensionOid[ParsedNames[i]]]

\* C9: a successful extractExtensionList leaves in the caller's list the
\* identifiers of the named extensions, each at its first occurrence only,
\* in first-seen order, and no identifier twice.
C9_DedupFirstSeenOrder ==
    (parse.op = "extract" /\ parse.status = "ok" /\ ~parse.isNull)
        => /\ extensionOids = FirstOccurrences(parse.before \o ParsedOids)
           /\ \A i, j \in 1..Len(extensionOids) :
                 i # j => extensionOids[i] # extensionOids[j]

\* seg,hstore,seg parsed into a fresh list gives [seg, hstore].
C9_Witness ==
    /\ parse.op = "extract"
    /\ parse.status = "ok"
    /\ ~parse.isNull
    /\ parse.before = NIL
    /\ parse.extensionString = <<"seg", "hstore", "seg">>
    /\ extensionOids = <<ExtensionOid["seg"], ExtensionOid["hstore"]>>

\* C10: when the string splits and some name in it is not installed, the
\* call fails with the unknown-extension error naming the first such name,
\* in validation mode and in list-building mode alike.
C10_UnknownExtensionFails ==
    (/\ parse.op = "extract"
     /\ SplitIdentifierString(parse.extensionString).ok
     /\ \E i \in 1..Len(ParsedNames) : ParsedNames[i] \notin installed)
        => LET first == CHOOSE i \in 1..Len(ParsedNames) :
                           /\ ParsedNames[i] \notin installed
                           /\ \A j \in 1..(i - 1) : ParsedNames[j] \in installed
           IN  /\ parse.status = "unknown"
               /\ parse.name = ParsedNames[first]

\* An installed extension followed by one that is not installed.
C10_Witness ==
    /\ parse.op = "extract"
    /\ parse.status = "unknown"
    /\ Len(ParsedNames) >= 2
    /\ ParsedNames[1] \in installed
    /\ parse.name = ParsedNames[2]
    /\ parse.name \notin installed

\* C11: when extractExtensionList fails, with a syntax error or an unknown
\* extension, the caller's list is what it was before the call.
C11_FailureLeavesListUntouched ==
    (/\ parse.op = "extract"
     /\ ~parse.isNull
     /\ parse.status \in {"syntax", "unknown"})
        => extensionOids = parse.before

\* C12: a validation-mode call (extensionOids == NULL) ends as the
\* list-building call on the same string does, whatever list that call is
\* given, with the same error and the same name in it, and it changes
\* neither the caller's list nor anything else.
C12_ValidationModeEquivalent ==
    [][(parse'.op = "extract" /\ parse'.isNull)
          => /\ \A oids \in ExtensionLists :
                   LET built == extractExtensionList(parse'.extensionString,
                                                     FALSE, oids)
                   IN  /\ built.status = parse'.status
                       /\ built.name = parse'.name
             /\ UNCHANGED <<extensionOids, installed, cacheVars>>]_vars

\* A validation call that fails on an unknown extension after an installed
\* one, while the planning context holds a list from an earlier call.
C12_Witness ==
    /\ parse.op = "extract"
    /\ parse.isNull
    /\ parse.status = "unknown"
    /\ Len(ParsedNames) >= 2
    /\ ParsedNames[1] \in installed
    /\ extensionOids # NIL

(***************************************************************************)
(* Properties of several backends                                          *)
(***************************************************************************)

\* C15: each backend owns its cache.  A step of the running backend (a
\* lookup, the population it does, an invalidation it accepts) leaves the
\* cache of every other backend unchanged, and so do a context switch and
\* ALTER SERVER; a backend whose invalidation is still pending answers a hit
\* from its cached entry; and when its invalidation is delivered no entry
\* older than the delivery is left in its table.
C15_BackendsOwnCaches ==
    [][/\ \A b \in Backends :
             (b # self \/ self' # self) => BackendCache(b)' = BackendCache(b)
       /\ (/\ last'.op = "is_shippable"
           /\ last'.extension_list # NIL
           /\ self \in pending /\ self \in pending'
           /\ last'.objnumber \in CachedObjects)
              => /\ \E e \in ShippableCacheHash :
                       e.key.objid = last'.objnumber /\ e.shippable = last'.result
                 /\ last'.scans = 0
       /\ (self \in pending /\ self \notin pending')
              => \A e \in ShippableCacheHash' :
                    last'.op = "is_shippable" /\ e.key.objid = last'.objnumber]_vars

\* The declaration changed; the running backend, its invalidation pending,
\* answered from its cache what the new declaration contradicts, while
\* another backend has already rebuilt the entry with the other answer.
C15_Witness ==
    /\ self \in pending
    /\ last.op = "is_shippable" /\ last.probes = 1 /\ last.scans = 0
    /\ last.result # ResolveShippable(last.objnumber, Range(declared))
    /\ \E b \in Backends \ {self} :
          /\ b \notin pending
          /\ \E e \in BackendCache(b).hash :
                e.key.objid = last.objnumber /\ e.shippable # last.result

(***************************************************************************)
(* Properties of the statement-level call                                  *)
(***************************************************************************)

\* C16: every is_shippable call terminates and returns a boolean.  A call
\* that has started reaches its return statement, whatever the object, the
\* extension list and the catalog rows; at the return statement the result
\* is exactly one boolean; and the call is never at a position other than
\* the statements of is_shippable and lookup_shippable (there is no error
\* exit).
C16_CallTerminates ==
    /\ [](frame.pc \in ProgramCounters)
    /\ [](frame.pc = "return" => frame.ret \in {{TRUE}, {FALSE}})
    /\ [](frame.pc # "return" => frame.ret = {})
    /\ (frame.pc = "is_shippable") ~> (frame.pc = "return")

\* A miss scanned two catalog rows of the object, matched on the second and
\* is about to return true.
C16_Witness ==
    /\ frame.pc = "return"
    /\ frame.ret = {TRUE}
    /\ frame.tuples = <<>>
    /\ Cardinality({d \in pg_depend : d.objid = frame.objnumber}) >= 2

(***************************************************************************)
(* Properties of lookup_shippable                                          *)
(***************************************************************************)

\* C17: lookup_shippable(o, E) with non-empty E returns true exactly when a
\* row of o has deptype extension-membership and a refobjid in E.  A row of
\* another deptype never makes it true, and since the action draws every
\* order of the rows and every order of the list, neither order matters.
C17_ResolverExact ==
    (last.op = "lookup_shippable" /\ last.extension_list # NIL)
        => LET rows == {d \in pg_depend : d.objid = last.objnumber}
               E == Range(last.extension_list)
           IN  /\ last.result =
                     (\E d \in rows : d.deptype = DEPENDENCY_EXTENSION /\ d.refobjid \in E)
               /\ (\A d \in rows : d.refobjid \in E => d.deptype # DEPENDENCY_EXTENSION)
                     => last.result = FALSE

\* The object has a row of another deptype that references a listed
\* extension and an extension-membership row that references an unlisted
\* one; the answer is false.
C17_Witness ==
    /\ last.op = "lookup_shippable"
    /\ last.extension_list # NIL
    /\ last.result = FALSE
    /\ \E d1, d2 \in pg_depend :
          /\ d1.objid = last.objnumber /\ d2.objid = last.objnumber
          /\ d1.deptype = DEPENDENCY_NORMAL
          /\ d1.refobjid \in Range(last.extension_list)
          /\ d2.deptype = DEPENDENCY_EXTENSION
          /\ d2.refobjid \notin Range(last.extension_list)

\* C21: no cache entry predates the most recent delivered invalidation.  An
\* answer computed from the extension list the caller passed before an
\* invalidation was delivered, on the miss path while pg_depend was being
\* opened, is not in the table as an entry that later calls return.
C21_NoEntryPredatesInvalidation ==
    \A e \in ShippableCacheHash : e.key.objid \notin predates

\* C22: a lookup_shippable call that opened pg_depend has ended its scan
\* and released its lock before it returns, after a match (break) as after
\* an exhausted scan: the lock is held and the scan open only between
\* heap_open and relation_close, the scan is never open without the lock,
\* neither is held when is_shippable stores the answer or returns, and the
\* table changes under the lock only by an invalidation delivered in
\* heap_open.  A call with the empty list never takes the lock.
C22_LockReleasedBeforeStore ==
    /\ [](frame.depRel <=> frame.pc \in {"beginscan", "getnext", "endscan", "relation_close"})
    /\ [](frame.scan <=> frame.pc \in {"getnext", "endscan"})
    /\ [](frame.pc \in {"hash_enter", "return"} => (~frame.depRel /\ ~frame.scan))
    /\ [](frame.extension_list = NIL => (~frame.depRel /\ ~frame.scan))
    /\ [][(frame.depRel \/ frame'.depRel)
             => (ShippableCacheHash' = ShippableCacheHash
                   \/ (frame.pc = "heap_open" /\ frame'.flushed))]_vars

\* The scan broke off on a match with a row still unread; scan and lock are
\* gone and the answer is about to be stored.
C22_Witness ==
    /\ frame.pc = "hash_enter"
    /\ frame.is_shippable
    /\ frame.tuples # <<>>
    /\ ~frame.depRel /\ ~frame.scan
====
